---- MODULE Spec2Model ----
(***************************************************************************)
(* A model of simcache.py: the E20 fetch/decode/execute loop of main()     *)
(* together with the one- or two-level LRU cache bookkeeping that observes *)
(* every lw/sw.  Python integers are unbounded, Python lists accept        *)
(* negative indices, and an instruction is decoded from the character      *)
(* string bin(word)[2:].zfill(16); all three are modelled as they behave.  *)
(***************************************************************************)
EXTENDS Integers, Sequences, FiniteSets, TLC

(***************************************************************************)
(* Program constants (Constants namedtuple, lines 12-15).                  *)
(***************************************************************************)
NUM_REGS == 8
MEM_SIZE == 32768
REG_SIZE == 65536

(***************************************************************************)
(* Bounds of the exploration.                                              *)
(***************************************************************************)
\* the loop is cut after this many iterations
MaxSteps == 70
\* number of loads of a load-only image
LoadProgLen == 4
\* number of loads and stores of a mixed image
MixProgLen == 3
\* both address the words AddrBase .. AddrBase+MaxAddr
MaxAddr == 2
AddrBase == 16
\* length of the access sequences on which two policies are compared
CmpLen == 5

(***************************************************************************)
(* Strings: bin(w)[2:].zfill(16), slices and int(s, 2).                    *)
(***************************************************************************)
RECURSIVE Digits(_)
Digits(n) ==
    IF n < 2 THEN << IF n = 1 THEN "1" ELSE "0" >>
    ELSE Digits(n \div 2) \o << IF n % 2 = 1 THEN "1" ELSE "0" >>

\* bin(w)[2:]: "0b101" loses "0b"; "-0b101" loses "-0" and keeps the "b"
BinTail(w) == IF w >= 0 THEN Digits(w) ELSE <<"b">> \o Digits(-w)

\* str.zfill(n) of a string that does not start with a sign
ZFill(s, n) ==
    IF Len(s) >= n THEN s
    ELSE [i \in 1..n |-> IF i <= n - Len(s) THEN "0" ELSE s[i - (n - Len(s))]]

\* instr = bin(memory[pc])[2:].zfill(16).  For a word of 0..65535 that is its
\* 16 binary digits, written directly; any other word takes the general route.
InstrOf(w) ==
    IF 0 <= w /\ w < REG_SIZE
    THEN [i \in 1..16 |-> IF (w \div 2^(16 - i)) % 2 = 1 THEN "1" ELSE "0"]
    ELSE ZFill(BinTail(w), 16)

\* the Python slice s[a:b] for 0 <= a <= b
Slice(s, a, b) == SubSeq(s, a + 1, IF b > Len(s) THEN Len(s) ELSE b)

\* s[a:]
SliceFrom(s, a) == SubSeq(s, a + 1, Len(s))

\* s[-k:]
SliceLast(s, k) == SubSeq(s, (IF Len(s) > k THEN Len(s) - k ELSE 0) + 1, Len(s))

\* int(s, 2) raises ValueError on a string holding anything but 0 and 1
BadInt(s) == s = <<>> \/ \E i \in 1..Len(s) : s[i] \notin {"0", "1"}

RECURSIVE IntBase2(_)
IntBase2(s) ==
    IF s = <<>> THEN 0
    ELSE 2 * IntBase2(SubSeq(s, 1, Len(s) - 1)) + (IF s[Len(s)] = "1" THEN 1 ELSE 0)

(***************************************************************************)
(* Python's & and | on unbounded two's-complement integers.                *)
(***************************************************************************)
RECURSIVE BitAnd(_, _)
BitAnd(a, b) ==
    IF a = 0 \/ b = 0 THEN 0
    ELSE IF a = -1 THEN b
    ELSE IF b = -1 THEN a
    ELSE (a % 2) * (b % 2) + 2 * BitAnd(a \div 2, b \div 2)

RECURSIVE BitOr(_, _)
BitOr(a, b) ==
    IF a = 0 THEN b
    ELSE IF b = 0 THEN a
    ELSE IF a = -1 \/ b = -1 THEN -1
    ELSE (IF a % 2 = 1 \/ b % 2 = 1 THEN 1 ELSE 0) + 2 * BitOr(a \div 2, b \div 2)

(***************************************************************************)
(* memory = [0] * MEM_SIZE, kept as the function of its non-zero cells.    *)
(* A Python list index i is valid for -MEM_SIZE <= i < MEM_SIZE, a         *)
(* negative one counting from the end; any other raises IndexError.        *)
(***************************************************************************)
IndexOk(i) == -MEM_SIZE <= i /\ i < MEM_SIZE

Cell(i) == IF i < 0 THEN i + MEM_SIZE ELSE i

MemGet(mem, i) == IF Cell(i) \in DOMAIN mem THEN mem[Cell(i)] ELSE 0

MemSet(mem, i, v) ==
    LET D == IF v = 0 THEN DOMAIN mem \ {Cell(i)} ELSE DOMAIN mem \cup {Cell(i)}
    IN  [a \in D |-> IF a = Cell(i) THEN v ELSE mem[a]]

(***************************************************************************)
(* The instruction functions.  Each returns the values the Python function *)
(* returns together with the lists it mutated; err names the exception     *)
(* that escaped, "" for none.                                              *)
(***************************************************************************)
threereg(p, r, instr) ==
    IF BadInt(Slice(instr, 9, 12)) \/ BadInt(Slice(instr, 3, 6)) \/ BadInt(Slice(instr, 6, 9))
    THEN [pc |-> p, regs |-> r, err |-> "ValueError"]
    ELSE
    LET dstIndex   == IntBase2(Slice(instr, 9, 12))
        srcA_Index == IntBase2(Slice(instr, 3, 6))
        srcB_Index == IntBase2(Slice(instr, 6, 9))
        op         == SliceLast(instr, 4)
    IN  IF op = <<"0","0","0","0">>
        THEN [pc |-> p + 1, err |-> "",
              regs |-> [r EXCEPT ![dstIndex] = (r[srcA_Index] + r[srcB_Index]) % REG_SIZE]]
        ELSE IF op = <<"0","0","0","1">>
        THEN [pc |-> p + 1, err |-> "",
              regs |-> [r EXCEPT ![dstIndex] = (r[srcA_Index] - r[srcB_Index]) % REG_SIZE]]
        ELSE IF op = <<"0","0","1","0">>
        THEN [pc |-> p + 1, err |-> "",
              regs |-> [r EXCEPT ![dstIndex] = BitAnd(r[srcA_Index], r[srcB_Index])]]
        ELSE IF op = <<"0","0","1","1">>
        THEN [pc |-> p + 1, err |-> "",
              regs |-> [r EXCEPT ![dstIndex] = BitOr(r[srcA_Index], r[srcB_Index])]]
        ELSE IF op = <<"0","1","0","0">>
        THEN [pc |-> p + 1, err |-> "",
              regs |-> [r EXCEPT ![dstIndex] =
                           IF r[srcA_Index] < r[srcB_Index] THEN 1 ELSE 0]]
        ELSE IF op = <<"1","0","0","0">>
        THEN [pc |-> r[srcA_Index], err |-> "", regs |-> r]
        ELSE [pc |-> p + 1, err |-> "", regs |-> r]

\* imm of tworegImm (lines 67-70): the six low digits, less 64 when the digit
\* before them is 1
tworegImm_imm(instr) ==
    LET imm == IntBase2(SliceFrom(instr, 10))
    IN  IF instr[10] = "1" THEN imm - 64 ELSE imm

\* imm of memImm with the sign digit ignored
memImm_imm_Unsigned(instr) ==
    IntBase2(SliceFrom(instr, 10))

\* imm of memImm (lines 82-84)
memImm_imm(instr) ==
    LET imm == IntBase2(SliceFrom(instr, 10))
    IN  IF instr[10] = "1" THEN imm - 64 ELSE imm

\* rel_imm of jeq (lines 100-102)
jeq_rel_imm(instr) ==
    LET rel_imm == IntBase2(SliceFrom(instr, 10))
    IN  IF instr[10] = "1" THEN rel_imm - 64 ELSE rel_imm

\* tworegImm with slti comparing against the signed immediate, not imm % 2**16
tworegImm_SltiSigned(p, r, instr) ==
    LET dstIndex == IntBase2(Slice(instr, 6, 9))
        srcIndex == IntBase2(Slice(instr, 3, 6))
        imm      == tworegImm_imm(instr)
    IN  IF Slice(instr, 0, 3) = <<"0","0","1">>
        THEN [pc |-> p + 1,
              regs |-> [r EXCEPT ![dstIndex] = IF r[srcIndex] < imm THEN 1 ELSE 0]]
        ELSE IF Slice(instr, 0, 3) = <<"1","1","1">>
        THEN [pc |-> p + 1,
              regs |-> [r EXCEPT ![dstIndex] = (r[srcIndex] + imm) % REG_SIZE]]
        ELSE [pc |-> p + 1, regs |-> r]

tworegImm(p, r, instr) ==
    LET dstIndex == IntBase2(Slice(instr, 6, 9))
        srcIndex == IntBase2(Slice(instr, 3, 6))
        imm      == tworegImm_imm(instr)
    IN  IF Slice(instr, 0, 3) = <<"0","0","1">>
        THEN [pc |-> p + 1,
              regs |-> [r EXCEPT ![dstIndex] =
                           IF r[srcIndex] < (imm % REG_SIZE) THEN 1 ELSE 0]]
        ELSE IF Slice(instr, 0, 3) = <<"1","1","1">>
        THEN [pc |-> p + 1,
              regs |-> [r EXCEPT ![dstIndex] = (r[srcIndex] + imm) % REG_SIZE]]
        ELSE [pc |-> p + 1, regs |-> r]

memImm(p, r, mem, instr) ==
    LET addrIndex == IntBase2(Slice(instr, 3, 6))
        imm       == memImm_imm(instr)
        idx       == r[addrIndex] + imm
        other     == IntBase2(Slice(instr, 6, 9))
    IN  IF ~IndexOk(idx) /\ Slice(instr, 0, 3) \in {<<"1","0","0">>, <<"1","0","1">>}
        THEN [pc |-> p, addr |-> idx, regs |-> r, memory |-> mem, err |-> "IndexError"]
        ELSE IF Slice(instr, 0, 3) = <<"1","0","0">>
        THEN LET r2 == [r EXCEPT ![other] = MemGet(mem, idx)]
             IN  [pc |-> p + 1, addr |-> r2[addrIndex] + imm, regs |-> r2,
                  memory |-> mem, err |-> ""]
        ELSE IF Slice(instr, 0, 3) = <<"1","0","1">>
        THEN [pc |-> p + 1, addr |-> r[addrIndex] + imm, regs |-> r,
              memory |-> MemSet(mem, idx, r[other]), err |-> ""]
        ELSE [pc |-> p + 1, addr |-> r[addrIndex] + imm, regs |-> r,
              memory |-> mem, err |-> ""]

\* jeq branching to pc+rel_imm, the +1 forgotten
jeq_NoIncrement(p, r, instr) ==
    LET regA_Index == IntBase2(Slice(instr, 3, 6))
        regB_Index == IntBase2(Slice(instr, 6, 9))
        rel_imm    == jeq_rel_imm(instr)
    IN  IF r[regA_Index] = r[regB_Index] THEN p + rel_imm ELSE p + 1

jeq(p, r, instr) ==
    LET regA_Index == IntBase2(Slice(instr, 3, 6))
        regB_Index == IntBase2(Slice(instr, 6, 9))
        rel_imm    == jeq_rel_imm(instr)
    IN  IF r[regA_Index] = r[regB_Index] THEN p + 1 + rel_imm ELSE p + 1

\* j_or_jal testing the halt condition against the link value pc+1
j_or_jal_HaltOnNext(p, r, instr) ==
    LET r2  == IF Slice(instr, 0, 3) = <<"0","1","1">> THEN [r EXCEPT ![7] = p + 1] ELSE r
        imm == IntBase2(SliceFrom(instr, 3))
    IN  [imm |-> imm, halt |-> (p + 1 = imm), regs |-> r2]

j_or_jal(p, r, instr) ==
    LET r2  == IF Slice(instr, 0, 3) = <<"0","1","1">> THEN [r EXCEPT ![7] = p + 1] ELSE r
        imm == IntBase2(SliceFrom(instr, 3))
    IN  [imm |-> imm, halt |-> (p = imm), regs |-> r2]

(***************************************************************************)
(* The cache bookkeeping of one memory instruction.  A set is the list of  *)
(* its slots, indexed from 0, each the tuple (tag, order); (-1, -1) marks  *)
(* a slot never used.                                                      *)
(***************************************************************************)
EmptySlot == <<-1, -1>>

NewCache(numlines, assoc) == [l \in 0..(numlines - 1) |-> [i \in 0..(assoc - 1) |-> EmptySlot]]

numlines_1(c) == c.L1size \div (c.L1assoc * c.L1blocksize)

numlines_2(c) == c.L2size \div (c.L2assoc * c.L2blocksize)

\* for j in range(n): set[j] = (set[j][0], set[j][1] + 1)
L1Bump(set, n) == [j \in DOMAIN set |-> IF j < n THEN <<set[j][1], set[j][2] + 1>> ELSE set[j]]

\* the search loop with a store that finds an unused slot leaving it unused
RECURSIVE L1Scan_NoWriteAllocate(_, _, _, _, _)
L1Scan_NoWriteAllocate(set, i, L1_tag, L1assoc, load) ==
    IF i >= L1assoc THEN [done_with_mem |-> FALSE, set |-> set, status |-> "SW", index |-> -1]
    ELSE IF set[i][1] = L1_tag
    THEN [done_with_mem |-> TRUE, index |-> i,
          set |-> L1Bump([set EXCEPT ![i] = <<L1_tag, 0>>], L1assoc),
          status |-> IF load THEN "HIT" ELSE "SW"]
    ELSE IF set[i][1] = -1
    THEN [done_with_mem |-> TRUE, index |-> i,
          set |-> IF load THEN L1Bump([set EXCEPT ![i] = <<L1_tag, 0>>], i + 1) ELSE set,
          status |-> IF load THEN "MISS" ELSE "SW"]
    ELSE L1Scan_NoWriteAllocate(set, i + 1, L1_tag, L1assoc, load)

\* the search loop comparing the tag with the first slot only
RECURSIVE L1Scan_TagAtFirstSlotOnly(_, _, _, _, _)
L1Scan_TagAtFirstSlotOnly(set, i, L1_tag, L1assoc, load) ==
    IF i >= L1assoc THEN [done_with_mem |-> FALSE, set |-> set, status |-> "SW", index |-> -1]
    ELSE IF i = 0 /\ set[i][1] = L1_tag
    THEN [done_with_mem |-> TRUE, index |-> i,
          set |-> L1Bump([set EXCEPT ![i] = <<L1_tag, 0>>], L1assoc),
          status |-> IF load THEN "HIT" ELSE "SW"]
    ELSE IF set[i][1] = -1
    THEN [done_with_mem |-> TRUE, index |-> i,
          set |-> L1Bump([set EXCEPT ![i] = <<L1_tag, 0>>], i + 1),
          status |-> IF load THEN "MISS" ELSE "SW"]
    ELSE L1Scan_TagAtFirstSlotOnly(set, i + 1, L1_tag, L1assoc, load)

\* the search loop with a hit leaving its slot at order 0 and raising the others
RECURSIVE L1Scan_HitKeepsZero(_, _, _, _, _)
L1Scan_HitKeepsZero(set, i, L1_tag, L1assoc, load) ==
    IF i >= L1assoc THEN [done_with_mem |-> FALSE, set |-> set, status |-> "SW", index |-> -1]
    ELSE IF set[i][1] = L1_tag
    THEN [done_with_mem |-> TRUE, index |-> i,
          set |-> [L1Bump(set, L1assoc) EXCEPT ![i] = <<L1_tag, 0>>],
          status |-> IF load THEN "HIT" ELSE "SW"]
    ELSE IF set[i][1] = -1
    THEN [done_with_mem |-> TRUE, index |-> i,
          set |-> L1Bump([set EXCEPT ![i] = <<L1_tag, 0>>], i + 1),
          status |-> IF load THEN "MISS" ELSE "SW"]
    ELSE L1Scan_HitKeepsZero(set, i + 1, L1_tag, L1assoc, load)

\* the search loop writing a fill to the slot counted from the end
RECURSIVE L1Scan_FillFromEnd(_, _, _, _, _)
L1Scan_FillFromEnd(set, i, L1_tag, L1assoc, load) ==
    IF i >= L1assoc THEN [done_with_mem |-> FALSE, set |-> set, status |-> "SW", index |-> -1]
    ELSE IF set[i][1] = L1_tag
    THEN [done_with_mem |-> TRUE, index |-> i,
          set |-> L1Bump([set EXCEPT ![i] = <<L1_tag, 0>>], L1assoc),
          status |-> IF load THEN "HIT" ELSE "SW"]
    ELSE IF set[i][1] = -1
    THEN [done_with_mem |-> TRUE, index |-> L1assoc - 1 - i,
          set |-> L1Bump([set EXCEPT ![L1assoc - 1 - i] = <<L1_tag, 0>>], L1assoc),
          status |-> IF load THEN "MISS" ELSE "SW"]
    ELSE L1Scan_FillFromEnd(set, i + 1, L1_tag, L1assoc, load)

\* the search loop: the first slot holding the tag, or the first unused slot
RECURSIVE L1Scan(_, _, _, _, _)
L1Scan(set, i, L1_tag, L1assoc, load) ==
    IF i >= L1assoc THEN [done_with_mem |-> FALSE, set |-> set, status |-> "SW", index |-> -1]
    ELSE IF set[i][1] = L1_tag
    THEN [done_with_mem |-> TRUE, index |-> i,
          set |-> L1Bump([set EXCEPT ![i] = <<L1_tag, 0>>], L1assoc),
          status |-> IF load THEN "HIT" ELSE "SW"]
    ELSE IF set[i][1] = -1
    THEN [done_with_mem |-> TRUE, index |-> i,
          set |-> L1Bump([set EXCEPT ![i] = <<L1_tag, 0>>], i + 1),
          status |-> IF load THEN "MISS" ELSE "SW"]
    ELSE L1Scan(set, i + 1, L1_tag, L1assoc, load)

\* the replacement loop with maxi never updated: the last slot wins
RECURSIVE L1MaxIndex_MaxiStale(_, _, _, _, _)
L1MaxIndex_MaxiStale(set, i, L1assoc, maxi, maxi_index) ==
    IF i >= L1assoc THEN maxi_index
    ELSE IF set[i][2] > maxi THEN L1MaxIndex_MaxiStale(set, i + 1, L1assoc, maxi, i)
    ELSE L1MaxIndex_MaxiStale(set, i + 1, L1assoc, maxi, maxi_index)

\* the replacement loop: the first slot holding the greatest order
RECURSIVE L1MaxIndex(_, _, _, _, _)
L1MaxIndex(set, i, L1assoc, maxi, maxi_index) ==
    IF i >= L1assoc THEN maxi_index
    ELSE IF set[i][2] > maxi THEN L1MaxIndex(set, i + 1, L1assoc, set[i][2], i)
    ELSE L1MaxIndex(set, i + 1, L1assoc, maxi, maxi_index)

L1Access(set, L1_tag, L1assoc, load) ==
    LET sc == L1Scan(set, 0, L1_tag, L1assoc, load)
    IN  IF sc.done_with_mem THEN sc
        ELSE LET maxi_index == L1MaxIndex(set, 0, L1assoc, -1, -1)
             IN  [done_with_mem |-> FALSE, index |-> maxi_index,
                  set |-> L1Bump([set EXCEPT ![maxi_index] = <<L1_tag, 0>>], L1assoc),
                  status |-> IF load THEN "MISS" ELSE "SW"]

L2Bump(set, n) == [j \in DOMAIN set |-> IF j < n THEN <<set[j][1], set[j][2] + 1>> ELSE set[j]]

\* the L2 search loop with a fill raising the order of the new slot only
RECURSIVE L2Scan_FillRaisesNewSlotOnly(_, _, _, _, _)
L2Scan_FillRaisesNewSlotOnly(set, i, L2_tag, L2assoc, load) ==
    IF i >= L2assoc THEN [done_with_mem |-> FALSE, set |-> set, status |-> "SW", index |-> -1]
    ELSE IF set[i][1] = L2_tag
    THEN [done_with_mem |-> TRUE, index |-> i,
          set |-> L2Bump([set EXCEPT ![i] = <<L2_tag, 0>>], L2assoc),
          status |-> IF load THEN "HIT" ELSE "SW"]
    ELSE IF set[i][1] = -1
    THEN [done_with_mem |-> TRUE, index |-> i,
          set |-> [set EXCEPT ![i] = <<L2_tag, 1>>],
          status |-> IF load THEN "MISS" ELSE "SW"]
    ELSE L2Scan_FillRaisesNewSlotOnly(set, i + 1, L2_tag, L2assoc, load)

RECURSIVE L2Scan(_, _, _, _, _)
L2Scan(set, i, L2_tag, L2assoc, load) ==
    IF i >= L2assoc THEN [done_with_mem |-> FALSE, set |-> set, status |-> "SW", index |-> -1]
    ELSE IF set[i][1] = L2_tag
    THEN [done_with_mem |-> TRUE, index |-> i,
          set |-> L2Bump([set EXCEPT ![i] = <<L2_tag, 0>>], L2assoc),
          status |-> IF load THEN "HIT" ELSE "SW"]
    ELSE IF set[i][1] = -1
    THEN [done_with_mem |-> TRUE, index |-> i,
          set |-> L2Bump([set EXCEPT ![i] = <<L2_tag, 0>>], i + 1),
          status |-> IF load THEN "MISS" ELSE "SW"]
    ELSE L2Scan(set, i + 1, L2_tag, L2assoc, load)

RECURSIVE L2MaxIndex(_, _, _, _, _)
L2MaxIndex(set, i, L2assoc, maxi, maxi_index) ==
    IF i >= L2assoc THEN maxi_index
    ELSE IF set[i][2] > maxi THEN L2MaxIndex(set, i + 1, L2assoc, set[i][2], i)
    ELSE L2MaxIndex(set, i + 1, L2assoc, maxi, maxi_index)

L2Access(set, L2_tag, L2assoc, load) ==
    LET sc == L2Scan(set, 0, L2_tag, L2assoc, load)
    IN  IF sc.done_with_mem THEN sc
        ELSE LET maxi_index == L2MaxIndex(set, 0, L2assoc, -1, -1)
             IN  [done_with_mem |-> FALSE, index |-> maxi_index,
                  set |-> L2Bump([set EXCEPT ![maxi_index] = <<L2_tag, 0>>], L2assoc),
                  status |-> IF load THEN "MISS" ELSE "SW"]

(***************************************************************************)
(* The canonical LRU the code is compared with: the same search and        *)
(* replacement, but a fill raises the order of every slot of the set.      *)
(***************************************************************************)
RECURSIVE CanonScan(_, _, _, _, _)
CanonScan(set, i, tag, assoc, load) ==
    IF i >= assoc THEN [done_with_mem |-> FALSE, set |-> set, status |-> "SW", index |-> -1]
    ELSE IF set[i][1] = tag
    THEN [done_with_mem |-> TRUE, index |-> i,
          set |-> L1Bump([set EXCEPT ![i] = <<tag, 0>>], assoc),
          status |-> IF load THEN "HIT" ELSE "SW"]
    ELSE IF set[i][1] = -1
    THEN [done_with_mem |-> TRUE, index |-> i,
          set |-> L1Bump([set EXCEPT ![i] = <<tag, 0>>], assoc),
          status |-> IF load THEN "MISS" ELSE "SW"]
    ELSE CanonScan(set, i + 1, tag, assoc, load)

CanonAccess(set, tag, assoc, load) ==
    LET sc == CanonScan(set, 0, tag, assoc, load)
    IN  IF sc.done_with_mem THEN sc
        ELSE LET maxi_index == L1MaxIndex(set, 0, assoc, -1, -1)
             IN  [done_with_mem |-> FALSE, index |-> maxi_index,
                  set |-> L1Bump([set EXCEPT ![maxi_index] = <<tag, 0>>], assoc),
                  status |-> IF load THEN "MISS" ELSE "SW"]

\* print_log_entry(cache_name, status, pc, addr, line): one line of output
LogEntry(cache_name, status, p, addr, line) ==
    [cache |-> cache_name, status |-> status, pc |-> p, addr |-> addr, line |-> line]

(***************************************************************************)
(* The state of main().                                                    *)
(*   pc, regs, memory, halt : the machine                                  *)
(*   err    : the exception that ended the run, "" while none has          *)
(*   cfg    : the parsed --cache argument                                  *)
(*   L1, L2 : the caches; L2 is the empty list when one cache is given     *)
(*   log    : the lines print_log_entry has written                        *)
(*   steps  : iterations of the while loop so far                          *)
(*   last   : pc, word and registers the latest iteration started from     *)
(*   shadow : a second run of the same image under the next configuration  *)
(*            of Configs, stepped with the first (for comparing runs)      *)
(*   echo   : the configuration lines printed before the loop               *)
(*   canon  : canonical LRU caches of the same configuration, given the    *)
(*            same accesses, with their own log                            *)
(***************************************************************************)
VARIABLES pc, regs, memory, halt, err, cfg, L1, L2, log, steps, last, shadow, echo, canon

vars == <<pc, regs, memory, halt, err, cfg, L1, L2, log, steps, last, shadow, echo, canon>>

\* the machine and caches as one value
Cur == [pc |-> pc, regs |-> regs, memory |-> memory, halt |-> halt, err |-> err,
        L1 |-> L1, L2 |-> L2, log |-> log]

(***************************************************************************)
(* One iteration of the while loop, by the branch of the dispatch taken.   *)
(***************************************************************************)
Word(s) == MemGet(s.memory, s.pc)

Instr(s) == InstrOf(Word(s))

\* which branch of the if/elif chain the string selects
Family(instr) ==
    IF Slice(instr, 0, 3) = <<"0","0","0">> THEN "threereg"
    ELSE IF Slice(instr, 0, 3) \in {<<"0","0","1">>, <<"1","1","1">>} THEN "tworegImm"
    ELSE IF Slice(instr, 0, 2) = <<"1","0">> THEN "memImm"
    ELSE IF Slice(instr, 0, 3) = <<"1","1","0">> THEN "jeq"
    ELSE IF Slice(instr, 0, 2) = <<"0","1">> THEN "j_or_jal"
    ELSE "none"

ThreeRegBranch(s) ==
    LET r == threereg(s.pc, s.regs, Instr(s))
    IN  IF r.err # "" THEN [s EXCEPT !.err = r.err]
        ELSE [s EXCEPT !.pc = r.pc, !.regs = r.regs]

TwoRegImmBranch(s) ==
    LET r == tworegImm(s.pc, s.regs, Instr(s))
    IN  [s EXCEPT !.pc = r.pc, !.regs = r.regs]

\* the L2 condition asking for a miss, which leaves stores out
L2Accessed_OnMissOnly(twocache, L1_status) == twocache /\ L1_status = "MISS"

\* if twocache and L1_status != "HIT"
L2Accessed(twocache, L1_status) == twocache /\ L1_status # "HIT"

\* MemBranch with the next pc depending on the L1 outcome: a load that hits
\* skips the following word
MemBranch_HitSkips(s, c) ==
    LET instr   == Instr(s)
        tup     == memImm(s.pc, s.regs, s.memory, instr)
        mem_val == tup.addr
        load    == instr[3] = "0"
        L1_block_number == mem_val \div c.L1blocksize
        L1_line == L1_block_number % numlines_1(c)
        L1_tag  == L1_block_number \div numlines_1(c)
        a1      == L1Access(s.L1[L1_line], L1_tag, c.L1assoc, load)
        e1      == LogEntry("L1", a1.status, s.pc, mem_val, L1_line)
        L2_block_number == mem_val \div c.L2blocksize
        L2_line == L2_block_number % numlines_2(c)
        L2_tag  == L2_block_number \div numlines_2(c)
        a2      == L2Access(s.L2[L2_line], L2_tag, c.L2assoc, load)
        e2      == LogEntry("L2", a2.status, s.pc, mem_val, L2_line)
    IN  IF tup.err # "" THEN [s EXCEPT !.err = tup.err]
        ELSE IF L2Accessed(c.twocache, a1.status)
        THEN [s EXCEPT !.pc = IF a1.status = "HIT" THEN tup.pc + 1 ELSE tup.pc, !.regs = tup.regs, !.memory = tup.memory,
                       !.L1 = [s.L1 EXCEPT ![L1_line] = a1.set],
                       !.L2 = [s.L2 EXCEPT ![L2_line] = a2.set],
                       !.log = s.log \o <<e1, e2>>]
        ELSE [s EXCEPT !.pc = IF a1.status = "HIT" THEN tup.pc + 1 ELSE tup.pc, !.regs = tup.regs, !.memory = tup.memory,
                       !.L1 = [s.L1 EXCEPT ![L1_line] = a1.set],
                       !.log = s.log \o <<e1>>]

\* MemBranch with every line of L1 being one shared list (rows not copied)
MemBranch_SharedRows(s, c) ==
    LET instr   == Instr(s)
        tup     == memImm(s.pc, s.regs, s.memory, instr)
        mem_val == tup.addr
        load    == instr[3] = "0"
        L1_block_number == mem_val \div c.L1blocksize
        L1_line == L1_block_number % numlines_1(c)
        L1_tag  == L1_block_number \div numlines_1(c)
        a1      == L1Access(s.L1[L1_line], L1_tag, c.L1assoc, load)
        e1      == LogEntry("L1", a1.status, s.pc, mem_val, L1_line)
        L2_block_number == mem_val \div c.L2blocksize
        L2_line == L2_block_number % numlines_2(c)
        L2_tag  == L2_block_number \div numlines_2(c)
        a2      == L2Access(s.L2[L2_line], L2_tag, c.L2assoc, load)
        e2      == LogEntry("L2", a2.status, s.pc, mem_val, L2_line)
    IN  IF tup.err # "" THEN [s EXCEPT !.err = tup.err]
        ELSE IF L2Accessed(c.twocache, a1.status)
        THEN [s EXCEPT !.pc = tup.pc, !.regs = tup.regs, !.memory = tup.memory,
                       !.L1 = [l \in DOMAIN s.L1 |-> a1.set],
                       !.L2 = [s.L2 EXCEPT ![L2_line] = a2.set],
                       !.log = s.log \o <<e1, e2>>]
        ELSE [s EXCEPT !.pc = tup.pc, !.regs = tup.regs, !.memory = tup.memory,
                       !.L1 = [l \in DOMAIN s.L1 |-> a1.set],
                       !.log = s.log \o <<e1>>]

MemBranch(s, c) ==
    LET instr   == Instr(s)
        tup     == memImm(s.pc, s.regs, s.memory, instr)
        mem_val == tup.addr
        load    == instr[3] = "0"
        L1_block_number == mem_val \div c.L1blocksize
        L1_line == L1_block_number % numlines_1(c)
        L1_tag  == L1_block_number \div numlines_1(c)
        a1      == L1Access(s.L1[L1_line], L1_tag, c.L1assoc, load)
        e1      == LogEntry("L1", a1.status, s.pc, mem_val, L1_line)
        L2_block_number == mem_val \div c.L2blocksize
        L2_line == L2_block_number % numlines_2(c)
        L2_tag  == L2_block_number \div numlines_2(c)
        a2      == L2Access(s.L2[L2_line], L2_tag, c.L2assoc, load)
        e2      == LogEntry("L2", a2.status, s.pc, mem_val, L2_line)
    IN  IF tup.err # "" THEN [s EXCEPT !.err = tup.err]
        ELSE IF L2Accessed(c.twocache, a1.status)
        THEN [s EXCEPT !.pc = tup.pc, !.regs = tup.regs, !.memory = tup.memory,
                       !.L1 = [s.L1 EXCEPT ![L1_line] = a1.set],
                       !.L2 = [s.L2 EXCEPT ![L2_line] = a2.set],
                       !.log = s.log \o <<e1, e2>>]
        ELSE [s EXCEPT !.pc = tup.pc, !.regs = tup.regs, !.memory = tup.memory,
                       !.L1 = [s.L1 EXCEPT ![L1_line] = a1.set],
                       !.log = s.log \o <<e1>>]

JeqBranch(s) == [s EXCEPT !.pc = jeq(s.pc, s.regs, Instr(s))]

JumpBranch(s) ==
    LET result == j_or_jal(s.pc, s.regs, Instr(s))
    IN  IF result.halt THEN [s EXCEPT !.regs = result.regs, !.halt = TRUE]
        ELSE [s EXCEPT !.regs = result.regs, !.pc = result.imm]

\* memory[pc] with pc outside the list
FetchFault(s) == [s EXCEPT !.err = "IndexError"]

\* the whole loop body
Iter(s, c) ==
    IF ~IndexOk(s.pc) THEN FetchFault(s)
    ELSE LET f == Family(Instr(s))
         IN  IF f = "threereg" THEN ThreeRegBranch(s)
             ELSE IF f = "tworegImm" THEN TwoRegImmBranch(s)
             ELSE IF f = "memImm" THEN MemBranch(s, c)
             ELSE IF f = "jeq" THEN JeqBranch(s)
             ELSE IF f = "j_or_jal" THEN JumpBranch(s)
             ELSE s

(***************************************************************************)
(* Cache configurations: the 3 or 6 integers of --cache.                   *)
(***************************************************************************)
OneCache(size, assoc, blocksize) ==
    [L1size |-> size, L1assoc |-> assoc, L1blocksize |-> blocksize, twocache |-> FALSE,
     L2size |-> 0, L2assoc |-> 0, L2blocksize |-> 0]

TwoCaches(size1, assoc1, blocksize1, size2, assoc2, blocksize2) ==
    [L1size |-> size1, L1assoc |-> assoc1, L1blocksize |-> blocksize1, twocache |-> TRUE,
     L2size |-> size2, L2assoc |-> assoc2, L2blocksize |-> blocksize2]

\* the variables of a run whose configuration was never assigned
NoCache ==
    [L1size |-> 0, L1assoc |-> 0, L1blocksize |-> 0, twocache |-> FALSE,
     L2size |-> 0, L2assoc |-> 0, L2blocksize |-> 0]

\* the line print_cache_config prints
ConfigLine(cache_name, size, assoc, blocksize, num_lines) ==
    [cache |-> cache_name, size |-> size, assoc |-> assoc, blocksize |-> blocksize,
     lines |-> num_lines]

\* lines 155-188 on the integers of --cache: the configuration, the lines
\* echoed, and the exception raised for a list of neither 3 nor 6 parts
Configure(parts) ==
    IF Len(parts) = 3
    THEN LET c == OneCache(parts[1], parts[2], parts[3])
         IN  [err |-> "", cfg |-> c,
              echo |-> <<ConfigLine("L1", c.L1size, c.L1assoc, c.L1blocksize, numlines_1(c))>>]
    ELSE IF Len(parts) = 6
    THEN LET c == TwoCaches(parts[1], parts[2], parts[3], parts[4], parts[5], parts[6])
         IN  [err |-> "", cfg |-> c,
              echo |-> <<ConfigLine("L1", c.L1size, c.L1assoc, c.L1blocksize, numlines_1(c)),
                         ConfigLine("L2", c.L2size, c.L2assoc, c.L2blocksize, numlines_2(c))>>]
    ELSE [err |-> "Exception", cfg |-> NoCache, echo |-> <<>>]

\* --cache 2,2,1   1,1,1,2,2,1   4,1,2,8,2,2, two whose size is not a
\* multiple of associativity * blocksize:   3,2,1   2,1,1,5,2,1, and one
\* line of three slots:   3,3,1
ArgList == << <<2, 2, 1>>, <<1, 1, 1, 2, 2, 1>>, <<4, 1, 2, 8, 2, 2>>,
              <<3, 2, 1>>, <<2, 1, 1, 5, 2, 1>>, <<3, 3, 1>> >>

\* --cache 2,2
BadArgs == { <<2, 2>> }

ConfigList == [i \in 1..Len(ArgList) |-> Configure(ArgList[i]).cfg]

\* the configurations every image is run under
MainConfigs == {ConfigList[i] : i \in 1..3}

Configs == {ConfigList[i] : i \in 1..Len(ConfigList)}

\* the configuration the comparison run uses: the next one of the list
OtherCfg(c) ==
    LET i == CHOOSE k \in 1..Len(ConfigList) : ConfigList[k] = c
    IN  ConfigList[(i % Len(ConfigList)) + 1]

NewL1(c) == IF c = NoCache THEN <<>> ELSE NewCache(numlines_1(c), c.L1assoc)

NewL2(c) == IF c.twocache THEN NewCache(numlines_2(c), c.L2assoc) ELSE <<>>

(***************************************************************************)
(* Machine code images.  The encoders place the fields where the decoders  *)
(* read them; an image is the function of its non-zero words.              *)
(***************************************************************************)
R3(srcA, srcB, dst, func) == srcA * 1024 + srcB * 128 + dst * 16 + func

I7(opcode, rA, rB, imm) == opcode * 8192 + rA * 1024 + rB * 128 + (imm % 128)

J13(opcode, imm) == opcode * 8192 + imm

ADD(d, a, b)  == R3(a, b, d, 0)
SUB(d, a, b)  == R3(a, b, d, 1)
AND(d, a, b)  == R3(a, b, d, 2)
OR(d, a, b)   == R3(a, b, d, 3)
SLT(d, a, b)  == R3(a, b, d, 4)
JR(a)         == R3(a, 0, 0, 8)
SLTI(d, a, i) == I7(1, a, d, i)
ADDI(d, a, i) == I7(7, a, d, i)
LW(d, a, i)   == I7(4, a, d, i)
SW(s, a, i)   == I7(5, a, s, i)
JEQ(a, b, i)  == I7(6, a, b, i)
J(t)          == J13(2, t)
JAL(t)        == J13(3, t)

\* the image whose lines are the words of seq, from address 0
Prog(seq) == [a \in 0..(Len(seq) - 1) |-> seq[a + 1]]

NonZero(f) == [a \in {x \in DOMAIN f : f[x] # 0} |-> f[a]]

\* words loaded as data
DataVals == {0, 1, 3, 32768, 65535}

ImmVals == {0, 1, 63, -64, -1}

\* lw $1,8($0); lw $2,9($0); one ALU instruction on $1 and $2; halt
AluOps ==
    {R3(1, 2, d, f) : d \in {1, 3}, f \in {0, 1, 2, 3, 4, 5}}
    \cup {SLTI(3, 1, i) : i \in ImmVals} \cup {ADDI(3, 1, i) : i \in ImmVals}

AluImages ==
    {NonZero(Prog(<<LW(1, 0, 8), LW(2, 0, 9), op, J(3), 0, 0, 0, 0, x, y>>)) :
        op \in AluOps, x \in DataVals, y \in DataVals}

\* loads of the words AddrBase.. and of address -1, then halt
LoadOps == {LW(1, 0, AddrBase + a) : a \in 0..MaxAddr} \cup {LW(1, 0, -1)}

LoadImages ==
    {NonZero(Prog(q \o <<J(LoadProgLen)>>)) : q \in [1..LoadProgLen -> LoadOps]}

\* loads and stores, then halt
MixOps == LoadOps \cup {SW(1, 0, AddrBase + a) : a \in 0..MaxAddr}

MixImages ==
    {NonZero(Prog(q \o <<J(MixProgLen)>>)) : q \in [1..MixProgLen -> MixOps]}

CacheImages == LoadImages \cup MixImages

\* a register set by addi, two control transfers, halt
JumpPool ==
    {J(1), J(2), JAL(2), JAL(3), JEQ(0, 1, 1), JEQ(0, 1, -2), JEQ(0, 0, 0), JEQ(0, 0, -3),
     JR(1), JR(7)}

JumpImages ==
    {NonZero(Prog(<<ADDI(1, 0, v), x, y, J(3)>>)) : v \in {0, 3, -1}, x \in JumpPool, y \in JumpPool}

\* lw $1,8($0); a load or store through $1; halt
BaseOps ==
    {LW(d, 1, i) : d \in {1, 2}, i \in {0, 1, -1}} \cup {SW(d, 1, i) : d \in {1, 2}, i \in {0, 1, -1}}

BaseImages ==
    {NonZero(Prog(<<LW(1, 0, 8), op, J(2), 0, 0, 0, 0, 0, x>>)) :
        op \in BaseOps, x \in {0, 20, 32767, 32768, 65535}}

\* jeq back over address 0 lands on a jal at the end of memory, whose link
\* value is stored at address 4 and then fetched
BackImages ==
    {NonZero(Prog(<<JEQ(0, 0, -(h + 1)), 0, SW(7, 0, 4), 0, 0, J(5)>>)) @@ ((MEM_SIZE - h) :> JAL(2)) :
        h \in {2, 9}}

\* hops of jeq $0,$0,-64 needed before pc+1 is below -4095
Hops == (4096 + 63) \div 63

DeepImage ==
    NonZero(Prog(<<JEQ(0, 0, -64), 0, SW(7, 0, 3)>>))
    @@ [a \in {MEM_SIZE - 63 * k : k \in 1..Hops} |->
          IF a = MEM_SIZE - 63 * Hops THEN JAL(2) ELSE JEQ(0, 0, -64)]

\* one instruction with a 7-bit immediate, every value of the field, then halt;
\* a jeq lands on a jump to the halting word
ImmField == -64..63

ImmOps == {SLTI(1, 0, i) : i \in ImmField} \cup {ADDI(1, 0, i) : i \in ImmField}
          \cup {LW(1, 0, i) : i \in ImmField} \cup {SW(1, 0, i) : i \in ImmField}

ImmImages ==
    {NonZero(Prog(<<op, J(1)>>)) : op \in ImmOps}
    \cup {(Cell(1 + i) :> J(5)) @@ (5 :> J(5)) @@ (0 :> JEQ(0, 0, i)) : i \in ImmField \ {-1}}
    \cup {NonZero(Prog(<<JEQ(0, 0, -1), J(1)>>))}

\* three loads that fill a 3-way set, three more of those words, of the next
\* word or of address -1, then halt
WayOps == LoadOps \cup {LW(1, 0, AddrBase + MaxAddr + 1)}

WayImages ==
    {NonZero(Prog(<<LW(1, 0, AddrBase), LW(1, 0, AddrBase + 1), LW(1, 0, AddrBase + 2),
                    x, y, z, J(6)>>)) : x \in WayOps, y \in WayOps, z \in WayOps}

\* every image runs under the first three configurations; the others run the
\* load/store images
ImagesFor(c) ==
    IF c \in MainConfigs THEN
        AluImages \cup CacheImages \cup JumpImages \cup BaseImages \cup BackImages
        \cup {DeepImage} \cup ImmImages
    ELSE IF c.L1assoc = 3 THEN WayImages
    ELSE MixImages

Images ==
    WayImages \cup AluImages \cup CacheImages \cup JumpImages \cup BaseImages \cup BackImages \cup {DeepImage}
    \cup ImmImages

(***************************************************************************)
(* Initial state: lines 146-191.                                           *)
(***************************************************************************)
Init ==
    \E parts \in {ArgList[i] : i \in 1..Len(ArgList)} \cup BadArgs :
      \E image \in ImagesFor(Configure(parts).cfg) :
      LET k == Configure(parts)
          c == k.cfg
          o == IF k.err = "" THEN OtherCfg(c) ELSE NoCache
      IN
        /\ pc = 0
        /\ regs = [i \in 0..(NUM_REGS - 1) |-> 0]
        /\ memory = image
        /\ halt = FALSE
        /\ err = k.err
        /\ echo = k.echo
        /\ cfg = c
        /\ L1 = NewL1(c)
        /\ L2 = NewL2(c)
        /\ log = <<>>
        /\ steps = 0
        /\ last = [pc |-> 0, word |-> 0, regs |-> [i \in 0..(NUM_REGS - 1) |-> 0]]
        /\ canon = [L1 |-> NewL1(c), L2 |-> NewL2(c), log |-> <<>>]
        /\ shadow = [pc |-> 0, regs |-> [i \in 0..(NUM_REGS - 1) |-> 0], memory |-> image,
                     halt |-> FALSE, err |-> k.err, L1 |-> NewL1(o),
                     L2 |-> NewL2(o), log |-> <<>>]

(***************************************************************************)
(* The actions: one iteration of "while not halt", by dispatch branch.     *)
(***************************************************************************)
Running == ~halt /\ err = "" /\ steps < MaxSteps

ShadowNext ==
    IF shadow.halt \/ shadow.err # "" THEN shadow
    ELSE Iter(shadow, OtherCfg(cfg))

\* the canonical caches given the access the iteration logged, if any
CanonNext(n) ==
    IF Len(n.log) = Len(log) THEN canon
    ELSE
    LET e       == n.log[Len(log) + 1]
        load    == e.status # "SW"
        b1      == e.addr \div cfg.L1blocksize
        line1   == b1 % numlines_1(cfg)
        a1      == CanonAccess(canon.L1[line1], b1 \div numlines_1(cfg), cfg.L1assoc, load)
        e1      == LogEntry("L1", a1.status, e.pc, e.addr, line1)
        b2      == e.addr \div cfg.L2blocksize
        line2   == b2 % numlines_2(cfg)
        a2      == CanonAccess(canon.L2[line2], b2 \div numlines_2(cfg), cfg.L2assoc, load)
        e2      == LogEntry("L2", a2.status, e.pc, e.addr, line2)
    IN  IF cfg.twocache /\ a1.status # "HIT"
        THEN [L1 |-> [canon.L1 EXCEPT ![line1] = a1.set],
              L2 |-> [canon.L2 EXCEPT ![line2] = a2.set],
              log |-> canon.log \o <<e1, e2>>]
        ELSE [L1 |-> [canon.L1 EXCEPT ![line1] = a1.set], L2 |-> canon.L2,
              log |-> canon.log \o <<e1>>]

Commit(n) ==
    /\ pc' = n.pc
    /\ regs' = n.regs
    /\ memory' = n.memory
    /\ halt' = n.halt
    /\ err' = n.err
    /\ L1' = n.L1
    /\ L2' = n.L2
    /\ log' = n.log
    /\ cfg' = cfg
    /\ echo' = echo
    /\ canon' = CanonNext(n)
    /\ steps' = steps + 1
    /\ last' = [pc |-> pc, word |-> Word(Cur), regs |-> regs]
    /\ shadow' = ShadowNext

ThreeReg ==
    /\ Running /\ IndexOk(pc) /\ Family(Instr(Cur)) = "threereg"
    /\ Commit(ThreeRegBranch(Cur))

TwoRegImm ==
    /\ Running /\ IndexOk(pc) /\ Family(Instr(Cur)) = "tworegImm"
    /\ Commit(TwoRegImmBranch(Cur))

MemInstr ==
    /\ Running /\ IndexOk(pc) /\ Family(Instr(Cur)) = "memImm"
    /\ Commit(MemBranch(Cur, cfg))

Jeq ==
    /\ Running /\ IndexOk(pc) /\ Family(Instr(Cur)) = "jeq"
    /\ Commit(JeqBranch(Cur))

JOrJal ==
    /\ Running /\ IndexOk(pc) /\ Family(Instr(Cur)) = "j_or_jal"
    /\ Commit(JumpBranch(Cur))

\* no branch of the chain matches: the iteration changes nothing
NoFamily ==
    /\ Running /\ IndexOk(pc) /\ Family(Instr(Cur)) = "none"
    /\ Commit(Cur)

\* memory[pc] raises IndexError
FetchError ==
    /\ Running /\ ~IndexOk(pc)
    /\ Commit(FetchFault(Cur))

Next == ThreeReg \/ TwoRegImm \/ MemInstr \/ Jeq \/ JOrJal \/ NoFamily \/ FetchError

Spec == Init /\ [][Next]_vars

(***************************************************************************)
(* Vocabulary of the properties.  Fields of a 16-bit word are taken here   *)
(* arithmetically, independently of the string decoding above.             *)
(***************************************************************************)
IsWord16(w) == 0 <= w /\ w < REG_SIZE

Op3(w)  == w \div 8192
FldA(w) == (w \div 1024) % 8
FldB(w) == (w \div 128) % 8
FldC(w) == (w \div 16) % 8
Func(w) == w % 16
Target(w) == w % 8192
\* the low 7 bits as a two's-complement number
Simm7(w) == IF w % 128 >= 64 THEN (w % 128) - 128 ELSE w % 128

\* the latest iteration fetched a word and ran it to the end without exception
Executed == steps > 0 /\ IndexOk(last.pc) /\ err = "" /\ IsWord16(last.word)

IsLoad(w)  == Op3(w) = 4
IsStore(w) == Op3(w) = 5
IsMem(w)   == IsLoad(w) \/ IsStore(w)
IsJump(w)  == Op3(w) \in {2, 3}
IsJal(w)   == Op3(w) = 3
IsJeq(w)   == Op3(w) = 6
IsJr(w)    == Op3(w) = 0 /\ Func(w) = 8

\* the L1 line the latest memory instruction wrote to the log
LastL1Entry ==
    IF log[Len(log)].cache = "L1" THEN log[Len(log)] ELSE log[Len(log) - 1]

AllRegs16(r) == \A i \in 0..(NUM_REGS - 1) : 0 <= r[i] /\ r[i] < REG_SIZE

(***************************************************************************)
(* C1.  For every load or store executed, the address logged and handed to *)
(* the caches is reg[base] + imm taken from the registers before the       *)
(* instruction ran, whatever the base and destination registers are.       *)
(***************************************************************************)
C1_AddressIsBasePlusImm ==
    (Executed /\ IsMem(last.word)) =>
        /\ LastL1Entry.pc = last.pc
        /\ LastL1Entry.addr = last.regs[FldA(last.word)] + Simm7(last.word)

\* the same statement for every memory instruction but a load into its own base
C1_HoldsUnlessLoadIntoBase ==
    (Executed /\ IsMem(last.word)
        /\ ~(IsLoad(last.word) /\ FldA(last.word) = FldB(last.word))) =>
        /\ LastL1Entry.pc = last.pc
        /\ LastL1Entry.addr = last.regs[FldA(last.word)] + Simm7(last.word)

(***************************************************************************)
(* C7.  Halt is signalled if and only if the instruction executed is a j   *)
(* or jal whose 13-bit target equals the current pc; any other target is   *)
(* the next pc; jal writes pc+1 into register 7; nothing else halts.       *)
(***************************************************************************)
C7_HaltIffSelfJump ==
    steps > 0 =>
        /\ halt <=> (Executed /\ IsJump(last.word) /\ Target(last.word) = last.pc)
        /\ (Executed /\ IsJump(last.word) /\ Target(last.word) # last.pc) =>
               pc = Target(last.word)
        /\ (Executed /\ IsJal(last.word)) => regs[7] = last.pc + 1

\* a jal onto itself: halted, with the link register written
C7_Witness ==
    /\ halt /\ Executed /\ IsJal(last.word)
    /\ Target(last.word) = last.pc /\ regs[7] = last.pc + 1 /\ last.regs[7] # regs[7]

(***************************************************************************)
(* C8.  With an image of 16-bit words, every register holds a value of     *)
(* 0..65535 in every reachable state.                                      *)
(***************************************************************************)
C8_RegistersStay16Bit == AllRegs16(regs)

(***************************************************************************)
(* C9.  On registers of 0..65535: add, sub and addi write the sum or       *)
(* difference modulo 2^16, and/or the exact bitwise result, slt 1 if a < b *)
(* else 0, slti 1 if a < (imm mod 2^16) else 0.                            *)
(***************************************************************************)
BitAt(x, k) == (x \div 2^k) % 2

C9_AluResults ==
    (Executed /\ AllRegs16(last.regs)) =>
        LET w == last.word
            a == last.regs[FldA(w)]
            b == last.regs[FldB(w)]
            d == regs[FldC(w)]
            t == regs[FldB(w)]
        IN  /\ (Op3(w) = 0 /\ Func(w) = 0) => d = (a + b) % (2^16)
            /\ (Op3(w) = 0 /\ Func(w) = 1) => d = (a - b) % (2^16)
            /\ (Op3(w) = 0 /\ Func(w) = 2) =>
                   /\ 0 <= d /\ d < 2^16
                   /\ \A k \in 0..15 : BitAt(d, k) = 1 <=> (BitAt(a, k) = 1 /\ BitAt(b, k) = 1)
            /\ (Op3(w) = 0 /\ Func(w) = 3) =>
                   /\ 0 <= d /\ d < 2^16
                   /\ \A k \in 0..15 : BitAt(d, k) = 1 <=> (BitAt(a, k) = 1 \/ BitAt(b, k) = 1)
            /\ (Op3(w) = 0 /\ Func(w) = 4) => d = (IF a < b THEN 1 ELSE 0)
            /\ Op3(w) = 1 => t = (IF a < (Simm7(w) % (2^16)) THEN 1 ELSE 0)
            /\ Op3(w) = 7 => t = (a + Simm7(w)) % (2^16)

\* a slti against a negative immediate, which compares against 2^16 + imm
C9_Witness ==
    /\ Executed /\ AllRegs16(last.regs) /\ Op3(last.word) = 1
    /\ Simm7(last.word) < 0 /\ last.regs[FldA(last.word)] > 0
    /\ regs[FldB(last.word)] = 1

(***************************************************************************)
(* C10.  jr sets the next pc to the raw value of its source register; jeq  *)
(* sets it to pc+1+imm when the two registers are equal and to pc+1 when   *)
(* they are not; neither changes a register or a memory word.              *)
(***************************************************************************)
C10_Step ==
    (Running /\ IndexOk(pc) /\ IsWord16(MemGet(memory, pc)) /\ steps' = steps + 1) =>
        LET w == MemGet(memory, pc)
        IN  /\ IsJr(w) =>
                   pc' = regs[FldA(w)] /\ regs' = regs /\ memory' = memory /\ ~halt'
            /\ IsJeq(w) =>
                   /\ pc' = (IF regs[FldA(w)] = regs[FldB(w)] THEN pc + 1 + Simm7(w) ELSE pc + 1)
                   /\ regs' = regs /\ memory' = memory /\ ~halt'

C10_JrAndJeq == [][C10_Step]_vars

\* a jeq taken backwards
C10_Witness ==
    /\ Executed /\ IsJeq(last.word) /\ Simm7(last.word) < 0
    /\ last.regs[FldA(last.word)] = last.regs[FldB(last.word)]
    /\ pc = last.pc + 1 + Simm7(last.word) /\ regs = last.regs

(***************************************************************************)
(* Vocabulary of the cache properties.  The log is the program's output:   *)
(* entry k of a cache is that cache's k-th access.                         *)
(***************************************************************************)
InRange(a) == 0 <= a /\ a < MEM_SIZE

BlockSizeOf(X) == IF X = "L1" THEN cfg.L1blocksize ELSE cfg.L2blocksize
NumLinesOf(X)  == IF X = "L1" THEN numlines_1(cfg) ELSE numlines_2(cfg)
BlockOf(X, a)  == a \div BlockSizeOf(X)
LineOf(X, a)   == BlockOf(X, a) % NumLinesOf(X)
TagOf(X, a)    == BlockOf(X, a) \div NumLinesOf(X)

Holds(set, t) == \E i \in DOMAIN set : set[i][1] = t

AllInRange(lg, X) == \A i \in 1..Len(lg) : lg[i].cache = X => InRange(lg[i].addr)

\* position in lg of the latest access of cache X to tag t of line l; 0 for none
LastUse(lg, X, l, t) ==
    LET S == {i \in 1..Len(lg) :
                 lg[i].cache = X /\ lg[i].line = l /\ TagOf(X, lg[i].addr) = t}
    IN  IF S = {} THEN 0 ELSE CHOOSE i \in S : \A k \in S : k <= i

IsL1(e) == e.cache = "L1"

L1Entries(lg) == SelectSeq(lg, IsL1)

\* the step is one completed iteration of the loop on a 16-bit word
StepDone ==
    /\ Running /\ IndexOk(pc) /\ IsWord16(MemGet(memory, pc))
    /\ steps' = steps + 1 /\ err' = ""

(***************************************************************************)
(* C2.  While every address given to a cache is in 0..32767, an access     *)
(* that finds neither its tag nor an unused slot in its set evicts the     *)
(* resident tag whose latest access is the oldest; A, B, A, C on a 1-line  *)
(* 2-way set gives MISS, MISS, HIT, MISS and the last access evicts B.     *)
(***************************************************************************)
C2_EvictsLRU(S, S2, lg, X, l, t) ==
    (\A i \in DOMAIN S : S[i][1] # t /\ S[i][1] # -1) =>
        \E v \in DOMAIN S :
            /\ S2[v][1] = t
            /\ LastUse(lg, X, l, S[v][1]) > 0
            /\ \A j \in DOMAIN S \ {v} :
                   /\ S2[j][1] = S[j][1]
                   /\ LastUse(lg, X, l, S[v][1]) < LastUse(lg, X, l, S[j][1])

C2_Step ==
    StepDone =>
        \A k \in (Len(log) + 1)..Len(log') :
            LET e == log'[k]
            IN  AllInRange(log', e.cache) =>
                    IF e.cache = "L1"
                    THEN C2_EvictsLRU(L1[e.line], L1'[e.line], log, "L1", e.line,
                                      TagOf("L1", e.addr))
                    ELSE C2_EvictsLRU(L2[e.line], L2'[e.line], log, "L2", e.line,
                                      TagOf("L2", e.addr))

\* loads of A, B, A, C, pairwise distinct tags, on one cache of one 2-way line
C2_IsABAC ==
    /\ Len(log) = 4
    /\ ~cfg.twocache /\ numlines_1(cfg) = 1 /\ cfg.L1assoc = 2
    /\ \A i \in 1..4 : log[i].status # "SW" /\ InRange(log[i].addr)
    /\ TagOf("L1", log[1].addr) = TagOf("L1", log[3].addr)
    /\ TagOf("L1", log[1].addr) # TagOf("L1", log[2].addr)
    /\ TagOf("L1", log[4].addr) # TagOf("L1", log[1].addr)
    /\ TagOf("L1", log[4].addr) # TagOf("L1", log[2].addr)

C2_Scenario ==
    C2_IsABAC =>
        /\ <<log[1].status, log[2].status, log[3].status, log[4].status>>
               = <<"MISS", "MISS", "HIT", "MISS">>
        /\ Holds(L1[0], TagOf("L1", log[1].addr))
        /\ Holds(L1[0], TagOf("L1", log[4].addr))
        /\ ~Holds(L1[0], TagOf("L1", log[2].addr))

C2_TrueLRU == [][C2_Step /\ C2_Scenario']_vars

C2_Witness == C2_IsABAC /\ log[4].status = "MISS" /\ ~Holds(L1[0], TagOf("L1", log[2].addr))

(***************************************************************************)
(* C3.  At every cache level accessed with an address of 0..32767, a load  *)
(* is HIT exactly when some slot of the target set holds the tag at that   *)
(* moment and MISS otherwise; a store is always logged as SW.              *)
(***************************************************************************)
C3_Classified(S, X, e, store) ==
    IF store THEN e.status = "SW"
    ELSE /\ e.status \in {"HIT", "MISS"}
         /\ e.status = "HIT" <=> Holds(S, TagOf(X, e.addr))

C3_Step ==
    StepDone =>
        \A k \in (Len(log) + 1)..Len(log') :
            LET e == log'[k]
            IN  InRange(e.addr) =>
                    C3_Classified(IF e.cache = "L1" THEN L1[e.line] ELSE L2[e.line],
                                  e.cache, e, IsStore(MemGet(memory, pc)))

C3_HitIffResident == [][C3_Step]_vars

\* the same, for a cache that has been given in-range addresses only
C3_StepAllInRange ==
    StepDone =>
        \A k \in (Len(log) + 1)..Len(log') :
            LET e == log'[k]
            IN  AllInRange(log', e.cache) =>
                    C3_Classified(IF e.cache = "L1" THEN L1[e.line] ELSE L2[e.line],
                                  e.cache, e, IsStore(MemGet(memory, pc)))

C3_HoldsWhileAllInRange == [][C3_StepAllInRange]_vars

(***************************************************************************)
(* C4.  With two caches, a memory instruction accesses L2 (one L2 line of  *)
(* output after the L1 line, L2's own line and tag, L2 updated) exactly    *)
(* when it is a store or a load that missed in L1; a load that hits in L1  *)
(* leaves L2 as it was and logs nothing for it.  With one cache no L2 line *)
(* is ever written.                                                        *)
(***************************************************************************)
C4_Step ==
    (StepDone /\ IsMem(MemGet(memory, pc))) =>
        LET n  == Len(log)
            w  == MemGet(memory, pc)
            e1 == log'[n + 1]
            e2 == log'[n + 2]
        IN  /\ Len(log') > n /\ SubSeq(log', 1, n) = log
            /\ e1.cache = "L1" /\ e1.pc = pc
            /\ IF cfg.twocache /\ (IsStore(w) \/ e1.status = "MISS")
               THEN /\ Len(log') = n + 2
                    /\ e2.cache = "L2" /\ e2.pc = pc /\ e2.addr = e1.addr
                    /\ e2.line = (e1.addr \div cfg.L2blocksize) % numlines_2(cfg)
                    /\ L2' # L2
                    /\ Holds(L2'[e2.line], (e1.addr \div cfg.L2blocksize) \div numlines_2(cfg))
               ELSE Len(log') = n + 1 /\ L2' = L2

C4_L2OnlyOnMissOrStore == [][C4_Step]_vars

\* two caches, the latest instruction a load that hit in L1: no L2 line follows
C4_Witness ==
    /\ Executed /\ IsLoad(last.word) /\ cfg.twocache /\ Len(log) >= 3
    /\ log[Len(log)].cache = "L1" /\ log[Len(log)].status = "HIT"
    /\ log[Len(log) - 1].cache = "L2"

(***************************************************************************)
(* C5.  Write-allocate: after a store to an address of 0..32767 the tag of *)
(* its block is resident in the addressed L1 set, and in the addressed L2  *)
(* set when there are two caches; so a load of the same block that is the  *)
(* next access to that L1 set is an L1 HIT.                                *)
(***************************************************************************)
C5_WriteAllocate ==
    /\ (Executed /\ IsStore(last.word) /\ InRange(LastL1Entry.addr)) =>
           LET a == LastL1Entry.addr
           IN  /\ Holds(L1[LineOf("L1", a)], TagOf("L1", a))
               /\ cfg.twocache => Holds(L2[LineOf("L2", a)], TagOf("L2", a))
    /\ \A i, j \in 1..Len(log) :
           ( /\ i < j /\ IsL1(log[i]) /\ IsL1(log[j])
             /\ log[i].status = "SW" /\ InRange(log[i].addr)
             /\ log[j].status # "SW"
             /\ BlockOf("L1", log[j].addr) = BlockOf("L1", log[i].addr)
             /\ \A k \in (i + 1)..(j - 1) : ~(IsL1(log[k]) /\ log[k].line = log[i].line) )
           => log[j].status = "HIT"

\* a store, then a load of another word of the same block, with two caches
C5_Witness ==
    /\ cfg.twocache /\ Len(log) >= 3
    /\ log[1].status = "SW" /\ InRange(log[1].addr)
    /\ IsL1(log[3]) /\ log[3].status = "HIT"
    /\ log[3].addr # log[1].addr
    /\ BlockOf("L1", log[3].addr) = BlockOf("L1", log[1].addr)

(***************************************************************************)
(* C6.  The caches only observe: a run of the same image under another     *)
(* cache configuration goes through the same pc, registers, memory and     *)
(* halt flag, step for step.                                               *)
(***************************************************************************)
C6_PassiveObserver ==
    /\ shadow.pc = pc
    /\ shadow.regs = regs
    /\ shadow.memory = memory
    /\ shadow.halt = halt
    /\ shadow.err = err

\* the two runs classify the same load differently and still agree
C6_Witness ==
    /\ halt /\ shadow.halt
    /\ Len(L1Entries(log)) = Len(L1Entries(shadow.log))
    /\ \E k \in 1..Len(L1Entries(log)) :
           /\ L1Entries(log)[k].status = "HIT"
           /\ L1Entries(shadow.log)[k].status = "MISS"
           /\ L1Entries(log)[k].addr = L1Entries(shadow.log)[k].addr

(***************************************************************************)
(* C11.  For every 16-bit instruction of the tworegImm, memImm and jeq     *)
(* families the decoded immediate is the two's-complement value of the low *)
(* 7 bits: 0..63 when bit 6 is 0, -64..-1 when it is 1; the three          *)
(* functions decode it alike, and it is the value the instruction uses.    *)
(***************************************************************************)
HasImm7(w) == Op3(w) \in {1, 7, 4, 5, 6}

C11_ImmediateDecode ==
    (Executed /\ HasImm7(last.word)) =>
        LET w     == last.word
            instr == InstrOf(w)
            a     == last.regs[FldA(w)]
        IN  /\ tworegImm_imm(instr) = Simm7(w)
            /\ memImm_imm(instr) = Simm7(w)
            /\ jeq_rel_imm(instr) = Simm7(w)
            /\ (w \div 64) % 2 = 0 => memImm_imm(instr) \in 0..63
            /\ (w \div 64) % 2 = 1 => memImm_imm(instr) \in -64..-1
            /\ Op3(w) = 7 => regs[FldB(w)] = (a + Simm7(w)) % REG_SIZE
            /\ (Op3(w) = 6 /\ a = last.regs[FldB(w)]) => pc = last.pc + 1 + Simm7(w)
            /\ (IsStore(w) \/ (IsLoad(w) /\ FldA(w) # FldB(w))) =>
                   LastL1Entry.addr = a + Simm7(w)

\* a load with the most negative immediate: address -64 from a base of 0
C11_Witness ==
    /\ Executed /\ IsLoad(last.word) /\ last.word % 128 = 64
    /\ last.regs[FldA(last.word)] = 0 /\ LastL1Entry.addr = -64

(***************************************************************************)
(* C12.  A configuration whose size is not an exact multiple of            *)
(* associativity * blocksize, for L1 or for L2, is rejected with a fatal   *)
(* error: nothing is echoed and no instruction is executed.                *)
(***************************************************************************)
Inexact(c) ==
    /\ c # NoCache
    /\ \/ c.L1size % (c.L1assoc * c.L1blocksize) # 0
       \/ c.twocache /\ c.L2size % (c.L2assoc * c.L2blocksize) # 0

C12_InexactSizeRejected ==
    Inexact(cfg) => (err # "" /\ echo = <<>> /\ steps = 0 /\ log = <<>>)

(***************************************************************************)
(* C13.  In every state of the fetch loop the program counter is an index  *)
(* of 0..32767 into the memory.                                            *)
(***************************************************************************)
C13_PcInRange == 0 <= pc /\ pc < MEM_SIZE

(***************************************************************************)
(* C14.  In a cache that has been given addresses of 0..32767 only, no set *)
(* holds the same tag in two slots (the never-used marker apart).          *)
(***************************************************************************)
NoDuplicateTag(set) ==
    \A i, j \in DOMAIN set : (i # j /\ set[i][1] = set[j][1]) => set[i][1] = -1

C14_NoDuplicateTags ==
    /\ AllInRange(log, "L1") => \A l \in DOMAIN L1 : NoDuplicateTag(L1[l])
    /\ AllInRange(log, "L2") => \A l \in DOMAIN L2 : NoDuplicateTag(L2[l])

\* a full 2-way L2 set after a hit on its second slot and a later replacement
C14_Witness ==
    /\ cfg.twocache /\ AllInRange(log, "L2")
    /\ \E l \in DOMAIN L2 :
           /\ Cardinality(DOMAIN L2[l]) = 2
           /\ \A i \in DOMAIN L2[l] : L2[l][i][1] # -1
           /\ \E k \in 1..Len(log) :
                  /\ log[k].cache = "L2" /\ log[k].line = l
                  /\ ~Holds(L2[l], TagOf("L2", log[k].addr))
           /\ \E k \in 1..Len(log) : log[k].cache = "L2" /\ log[k].status = "HIT"

(***************************************************************************)
(* C15.  When an access finds its tag in a slot of the target set, after   *)
(* the access that slot's order is 0 and the order of every other slot of  *)
(* the set is 1 greater than before.                                       *)
(***************************************************************************)
\* the search loop stops at slot i on the tag t
FoundAt(S, t, i) == S[i][1] = t /\ \A j \in DOMAIN S : j < i => S[j][1] \notin {t, -1}

\* slot i is left with order r, every other slot with its tag and order + 1
HitLeaves(S, S2, t, i, r) ==
    /\ S2[i] = <<t, r>>
    /\ \A j \in DOMAIN S \ {i} : S2[j] = <<S[j][1], S[j][2] + 1>>

C15_StepWith(r, anyAddress) ==
    StepDone =>
        \A k \in (Len(log) + 1)..Len(log') :
            LET e  == log'[k]
                S  == IF e.cache = "L1" THEN L1[e.line] ELSE L2[e.line]
                S2 == IF e.cache = "L1" THEN L1'[e.line] ELSE L2'[e.line]
                t  == TagOf(e.cache, e.addr)
            IN  (anyAddress \/ AllInRange(log', e.cache)) =>
                    \A i \in DOMAIN S : FoundAt(S, t, i) => HitLeaves(S, S2, t, i, r)

\* the statement, on caches given addresses of 0..32767 only, where the tag
\* found is one an earlier access installed
C15_HitSlotAtZero == [][C15_StepWith(0, FALSE)]_vars

\* as the code has it, for every access: the slot found is raised with the
\* others, and is left at order 1
C15_HitSlotAtOne == [][C15_StepWith(1, TRUE)]_vars

\* a load that hit in a 2-way L1 set: its slot at order 1, the other above it
C15_Witness ==
    /\ Executed /\ IsLoad(last.word) /\ LastL1Entry.status = "HIT"
    /\ InRange(LastL1Entry.addr)
    /\ LET S == L1[LastL1Entry.line]
       IN  \E i, j \in DOMAIN S :
               /\ i # j /\ S[i] = <<TagOf("L1", LastL1Entry.addr), 1>>
               /\ S[j][1] # -1 /\ S[j][2] > 1

(***************************************************************************)
(* C16.  In every reachable state the occupied slots of a set have         *)
(* pairwise distinct orders, and of two occupied slots the one whose tag   *)
(* was accessed later has the smaller order.                               *)
(***************************************************************************)
Occupied(slot) == slot[1] # -1

RecencyIsAccessOrder(S, X, l) ==
    \A i, j \in DOMAIN S :
        (i # j /\ Occupied(S[i]) /\ Occupied(S[j])) =>
            /\ S[i][2] # S[j][2]
            /\ LastUse(log, X, l, S[i][1]) > LastUse(log, X, l, S[j][1]) => S[i][2] < S[j][2]

C16_RecencyIsAccessOrder ==
    /\ \A l \in DOMAIN L1 : RecencyIsAccessOrder(L1[l], "L1", l)
    /\ \A l \in DOMAIN L2 : RecencyIsAccessOrder(L2[l], "L2", l)

\* the same, for a cache that has been given in-range addresses only
C16_HoldsWhileAllInRange ==
    /\ AllInRange(log, "L1") => \A l \in DOMAIN L1 : RecencyIsAccessOrder(L1[l], "L1", l)
    /\ AllInRange(log, "L2") => \A l \in DOMAIN L2 : RecencyIsAccessOrder(L2[l], "L2", l)

(***************************************************************************)
(* C17.  Raising only slots 0..i on a fill changes the LRU behaviour       *)
(* against the canonical policy that raises the whole set: some sequence   *)
(* of in-range accesses, run by both from empty caches, differs in a       *)
(* HIT/MISS classification or in the tag evicted.                          *)
(***************************************************************************)
TagsOf(set) == [i \in DOMAIN set |-> set[i][1]]

\* the loads of the addresses q on the L1 of configuration c, by the code's
\* policy or by the canonical one: the status and the tags left, per access
RECURSIVE PolicyRun(_, _, _, _)
PolicyRun(cache, q, c, canonical) ==
    IF q = <<>> THEN <<>>
    ELSE LET b    == Head(q) \div c.L1blocksize
             line == b % numlines_1(c)
             tag  == b \div numlines_1(c)
             acc  == IF canonical THEN CanonAccess(cache[line], tag, c.L1assoc, TRUE)
                     ELSE L1Access(cache[line], tag, c.L1assoc, TRUE)
         IN  << <<acc.status, line, TagsOf(acc.set)>> >>
             \o PolicyRun([cache EXCEPT ![line] = acc.set], Tail(q), c, canonical)

CmpAddrs == AddrBase..(AddrBase + MaxAddr + 1)

\* the statement: under the configuration of the run, or another of those
\* explored, some sequence of CmpLen in-range loads tells the two apart
C17_PoliciesDiffer ==
    \E c \in (Configs \cup {cfg}) \ {NoCache} :
        \E q \in [1..CmpLen -> CmpAddrs] :
            PolicyRun(NewL1(c), q, c, FALSE) # PolicyRun(NewL1(c), q, c, TRUE)

AllAddressesInRange == \A k \in 1..Len(log) : InRange(log[k].addr)

SameTagsAndOrders(A, B) ==
    \A l \in DOMAIN A : \A i \in DOMAIN A[l] :
        /\ A[l][i][1] = B[l][i][1]
        /\ Occupied(A[l][i]) => A[l][i][2] = B[l][i][2]

\* what holds instead: while every address is in 0..32767 the two policies
\* log the same lines and keep the same tags, with the same orders, in the
\* same slots; they differ in the order numbers of never-used slots only
C17_SameAsCanonical ==
    AllAddressesInRange =>
        /\ canon.log = log
        /\ SameTagsAndOrders(L1, canon.L1)
        /\ SameTagsAndOrders(L2, canon.L2)

\* a 3-way set after a replacement and a hit, beside caches whose never-used
\* slots carry different numbers under the two policies at some moment
C17_Witness ==
    /\ AllAddressesInRange /\ cfg.L1assoc = 3 /\ Len(log) >= 5
    /\ \A i \in DOMAIN L1[0] : Occupied(L1[0][i])
    /\ \E k \in 1..Len(log) : ~Holds(L1[0], TagOf("L1", log[k].addr))
    /\ \E k \in 4..Len(log) : log[k].status = "HIT"
    /\ canon.log = log

\* never-used slots numbered differently by the two policies
C17_NumbersDiffer ==
    /\ AllAddressesInRange /\ canon.log = log /\ Len(log) >= 2
    /\ \E l \in DOMAIN L1 : \E i \in DOMAIN L1[l] :
           ~Occupied(L1[l][i]) /\ L1[l][i][2] # canon.L1[l][i][2]

(***************************************************************************)
(* C18.  A load or store with address a, the address handed to the caches, *)
(* changes in each cache it touches only the set of index                  *)
(* (a / blocksize) % numlines of that cache; every other set of L1 and L2  *)
(* keeps its tags and orders; any other instruction changes no cache       *)
(* state.                                                                  *)
(***************************************************************************)
OnlySetChanged(C, C2, l) ==
    /\ DOMAIN C2 = DOMAIN C
    /\ \A k \in DOMAIN C \ {l} : C2[k] = C[k]

C18_Step ==
    (Running /\ steps' = steps + 1) =>
        LET w == MemGet(memory, pc)
        IN  IF IndexOk(pc) /\ IsWord16(w) /\ IsMem(w) /\ err' = ""
            THEN LET a == log'[Len(log) + 1].addr
                 IN  /\ OnlySetChanged(L1, L1', (a \div cfg.L1blocksize) % numlines_1(cfg))
                     /\ IF cfg.twocache
                        THEN OnlySetChanged(L2, L2', (a \div cfg.L2blocksize) % numlines_2(cfg))
                        ELSE L2' = L2
            ELSE L1' = L1 /\ L2' = L2 /\ log' = log

C18_SetIndependence == [][C18_Step]_vars

\* two lines in each cache, all filled, the latest access on line 1 of L1
C18_Witness ==
    /\ Executed /\ IsMem(last.word) /\ cfg.twocache
    /\ numlines_1(cfg) = 2 /\ numlines_2(cfg) = 2
    /\ LastL1Entry.line = 1
    /\ \A l \in DOMAIN L1 : Occupied(L1[l][0])
    /\ \A l \in DOMAIN L2 : Occupied(L2[l][0])

(***************************************************************************)
(* C19.  A cold cache never reports HIT: the first access that touches a   *)
(* set, a set in which nothing has been installed, is not classified HIT,  *)
(* whatever address the load executed has.                                 *)
(***************************************************************************)
FirstTouch(k) ==
    \A j \in 1..(k - 1) : ~(log[j].cache = log[k].cache /\ log[j].line = log[k].line)

C19_ColdNeverHits ==
    \A k \in 1..Len(log) : FirstTouch(k) => log[k].status # "HIT"

(***************************************************************************)
(* C20.  In a cache given addresses of 0..32767 only, the occupied slots   *)
(* of every set are a prefix of its slots and the never-used ones a        *)
(* suffix; an occupied slot does not become never-used again; and a tag is *)
(* evicted only from a set whose slots are all occupied.                   *)
(***************************************************************************)
OccupiedPrefix(S) ==
    \A i, j \in DOMAIN S : (i < j /\ Occupied(S[j])) => Occupied(S[i])

StaysOccupied(S, S2) == \A i \in DOMAIN S : Occupied(S[i]) => Occupied(S2[i])

Evicts(S, S2) == \E i \in DOMAIN S : Occupied(S[i]) /\ S2[i][1] # S[i][1]

Full(S) == \A i \in DOMAIN S : Occupied(S[i])

SetsWellFormed(C, C2) ==
    \A l \in DOMAIN C :
        /\ OccupiedPrefix(C[l]) /\ OccupiedPrefix(C2[l])
        /\ StaysOccupied(C[l], C2[l])
        /\ Evicts(C[l], C2[l]) => Full(C[l])

C20_Step ==
    (Running /\ steps' = steps + 1) =>
        /\ AllInRange(log', "L1") => SetsWellFormed(L1, L1')
        /\ AllInRange(log', "L2") => SetsWellFormed(L2, L2')

C20_OccupiedPrefix == [][C20_Step]_vars

\* a replacement in a full 2-way L2 set, L1 being a single slot
C20_Witness ==
    /\ cfg.twocache /\ cfg.L2assoc = 2 /\ cfg.L1assoc = 1 /\ AllAddressesInRange
    /\ Executed /\ IsMem(last.word) /\ log[Len(log)].cache = "L2"
    /\ Full(L2[log[Len(log)].line])
    /\ \E k \in 1..Len(log) :
           /\ log[k].cache = "L2" /\ log[k].line = log[Len(log)].line
           /\ ~Holds(L2[log[k].line], TagOf("L2", log[k].addr))

====
